---- MODULE Spec2Model ----
(***************************************************************************)
(* phoenix-tls: an always-present, reference counted thread local.         *)
(*                                                                         *)
(* The model follows src/src/lib.rs (Phoenix, PhoenixKey, run_on_default,  *)
(* the phoenix_tls! thread_local) with the PhoenixTarget of                *)
(* src/examples/thread_list.rs (struct Thread, THREAD_LIST, THREAD_ID).    *)
(*                                                                         *)
(* A Phoenix handle is its `raw` pointer: an address of the heap.  The     *)
(* heap maps an address to the PhoenixImpl stored there.  Every operation  *)
(* of the library is an operator from machine state to machine state that  *)
(* performs the statements of the Rust function in their order and writes  *)
(* the events it produces to `log`; an action of the model is one call of  *)
(* the public API by one thread.  Calls of different threads interleave    *)
(* as wholes: a Phoenix is neither Send nor Sync, so a cell is touched by  *)
(* one thread only, and the two things threads share, THREAD_LIST (behind  *)
(* a Mutex) and THREAD_ID (atomic), are each accessed atomically.          *)
(***************************************************************************)
EXTENDS Integers, Sequences, FiniteSets, TLC

\* ---------------------------------------------------------------- bounds

\* Number of heap addresses the allocator may hand out.
NumAddrs == 2

\* Number of values T::default() can produce before the model stops
\* allocating (THREAD_ID is an unbounded counter in the program).
MaxCells == 3

\* Number of handles the program passes to mem::forget before the model
\* stops leaking.
MaxLeaks == 1

\* Largest value of the reference count type (usize::MAX, scaled down);
\* wrapping_add wraps modulo UsizeMax + 1.
UsizeMax == 2

\* ------------------------------------------------------------ vocabulary

\* The two threads of examples/thread_list.rs.
Threads == {"main", "spawned"}

Addrs == 1..NumAddrs

\* The null pointer: no handle.
NoAddr == 0

Ids == 0..(MaxCells - 1)

NoThread == "none"

\* Nothing returned: no handle, no closure result, no panic unwinding
\* through the call.
NoRet == [handle |-> NoAddr, value |-> -1, panicked |-> FALSE]

\* Memory that holds no PhoenixImpl.
FreeCell == [live |-> FALSE, value |-> 0, ref_count |-> 0]

VARIABLES
    heap,         \* Addrs -> PhoenixImpl {value, ref_count} (live: allocated)
    slot,         \* Threads -> the thread's __SLOW thread_local
    held,         \* Threads -> Addrs -> number of Phoenix handles the thread owns
    leaked,       \* Addrs -> number of handles passed to mem::forget
    THREAD_LIST,  \* the registry of examples/thread_list.rs: addresses
    THREAD_ID,    \* the id counter of examples/thread_list.rs
    fault,        \* "none", or how the process died
    ret,          \* what the last call returned
    last,         \* the last call: operation, thread, slot state before it
    log,          \* events of the last call, in program order
    hist          \* Ids -> how often each hook ran on the value; the thread and
                  \* the address subscribe ran on; what made the cell
                  \* ("slot": the lazy initialisation, "default": run_on_default)

vars == <<heap, slot, held, leaked, THREAD_LIST, THREAD_ID, fault, ret, last, log, hist>>

\* ------------------------------------------------------- machine records

\* The part of the state the library's functions read and write.
Machine ==
    [heap |-> heap, slot |-> slot, list |-> THREAD_LIST, next_id |-> THREAD_ID,
     fault |-> fault, ret |-> NoRet, log |-> <<>>, hist |-> hist]

\* An event: kind k on the cell at address a with value v; n is the
\* ref_count the statement wrote or saw.
Ev(k, a, v, n) == [k |-> k, a |-> a, v |-> v, n |-> n]

\* The statement that produced event e has executed.
Emit(m, e) == [m EXCEPT !.log = Append(@, e)]

\* A statement executes only while the process is running.
Running(m) == m.fault = "none"

\* The process ends: nudge::abort ("abort"), a failed debug_assert
\* ("assert"), a panic of unwrap ("unwrap"), the use of released memory
\* ("dangling").
Die(m, how) == [m EXCEPT !.fault = how]

\* Dereference of a raw pointer: the memory must hold a PhoenixImpl.
Valid(m, a) == a \in Addrs /\ m.heap[a].live

RECURSIVE Sum(_, _)
\* The sum of f over S.
Sum(f, S) ==
    IF S = {} THEN 0
    ELSE LET x == CHOOSE y \in S : TRUE IN f[x] + Sum(f, S \ {x})

RECURSIVE Position(_, _, _)
\* Iterator::position: index of the first element equal to x, 0 for None.
Position(s, x, i) ==
    IF i > Len(s) THEN 0
    ELSE IF s[i] = x THEN i
    ELSE Position(s, x, i + 1)

\* Vec::remove(position)
Remove(s, p) == [i \in 1..(Len(s) - 1) |-> IF i < p THEN s[i] ELSE s[i + 1]]

\* ------------------------------------------- examples/thread_list.rs hooks

\* Thread::default: id = THREAD_ID.fetch_add(1)
ThreadDefault(m) == [m EXCEPT !.next_id = @ + 1]

\* Thread::subscribe: THREAD_LIST.push(address of self)
Subscribe(m, a, t) ==
    LET v == m.heap[a].value IN
    Emit([m EXCEPT !.list = Append(@, a),
                   !.hist[v].subs = @ + 1,
                   !.hist[v].thread = t,
                   !.hist[v].addr = a],
         Ev("subscribe", a, v, m.heap[a].ref_count))

\* Thread::unsubscribe: remove the position of the address of self; unwrap
\* panics when the address is not in the list.
Unsubscribe(m, a) ==
    LET v == m.heap[a].value
        position == Position(m.list, a, 1)
        m1 == Emit([m EXCEPT !.hist[v].unsubs = @ + 1],
                   Ev("unsubscribe", a, v, m.heap[a].ref_count))
    IN  IF position = 0 THEN Die(m1, "unwrap")
        ELSE [m1 EXCEPT !.list = Remove(@, position)]

\* ------------------------------------------------------------ lib.rs

\* Mutant of PhoenixNew: subscribe is not called.
PhoenixNewNoSubscribe(m, a, t) ==
    LET v == m.next_id IN
    Emit([ThreadDefault(m) EXCEPT
              !.heap[a] = [live |-> TRUE, value |-> v, ref_count |-> 1]],
         Ev("alloc", a, v, 1))

\* Mutant of PhoenixNew: subscribe is called twice.
PhoenixNewSubscribesTwice(m, a, t) ==
    LET v  == m.next_id
        m1 == ThreadDefault(m)
        m2 == Emit([m1 EXCEPT !.heap[a] = [live |-> TRUE, value |-> v, ref_count |-> 1]],
                   Ev("alloc", a, v, 1))
    IN  Subscribe(Subscribe(m2, a, t), a, t)

\* Phoenix::new at address a, called on thread t.
PhoenixNew(m, a, t) ==
    LET v  == m.next_id
        m1 == ThreadDefault(m)
        m2 == Emit([m1 EXCEPT !.heap[a] = [live |-> TRUE, value |-> v, ref_count |-> 1]],
                   Ev("alloc", a, v, 1))
    IN  Subscribe(m2, a, t)

\* Mutant of Dealloc: the Box is dropped before unsubscribe is called.
DeallocFreeFirst(m, a) ==
    LET v  == m.heap[a].value
        m1 == Emit([m EXCEPT !.heap[a] = FreeCell, !.hist[v].frees = @ + 1],
                   Ev("free", a, v, 0))
    IN  Emit([m1 EXCEPT !.hist[v].unsubs = @ + 1,
                        !.list = IF Position(@, a, 1) = 0 THEN @
                                 ELSE Remove(@, Position(@, a, 1))],
             Ev("unsubscribe", a, v, 0))

\* Mutant of Dealloc: the Box is dropped and unsubscribe is not called.
DeallocNoUnsubscribe(m, a) ==
    LET v == m.heap[a].value IN
    Emit([m EXCEPT !.heap[a] = FreeCell, !.hist[v].frees = @ + 1],
         Ev("free", a, v, 0))

\* dealloc: Box::from_raw, unsubscribe, then the Box is dropped.
Dealloc(m, a) ==
    LET v  == m.heap[a].value
        m1 == Unsubscribe(m, a)
    IN  IF ~Running(m1) THEN m1
        ELSE Emit([m1 EXCEPT !.heap[a] = FreeCell, !.hist[v].frees = @ + 1],
                  Ev("free", a, v, 0))

\* Mutant of PhoenixDrop: the count after the decrement is compared with 1.
PhoenixDropOffByOne(m, a) ==
    IF ~Running(m) THEN m
    ELSE IF ~Valid(m, a) THEN Die(m, "dangling")
    ELSE
        LET count == m.heap[a].ref_count IN
        IF count = 0 THEN Die(m, "assert")
        ELSE
            LET m1 == Emit([m EXCEPT !.heap[a].ref_count = count - 1],
                           Ev("dec", a, m.heap[a].value, count - 1))
            IN  IF count - 1 <= 1 THEN Dealloc(m1, a) ELSE m1

\* <Phoenix as Drop>::drop; debug_assert!(count > 0) fails on a count of 0.
PhoenixDrop(m, a) ==
    IF ~Running(m) THEN m
    ELSE IF ~Valid(m, a) THEN Die(m, "dangling")
    ELSE
        LET count == m.heap[a].ref_count IN
        IF count = 0 THEN Die(m, "assert")
        ELSE
            LET m1 == Emit([m EXCEPT !.heap[a].ref_count = count - 1],
                           Ev("dec", a, m.heap[a].value, count - 1))
            IN  IF count = 1 THEN Dealloc(m1, a) ELSE m1

\* Mutant of PhoenixClone: no overflow check, the count wraps.
PhoenixCloneWraps(m, a) ==
    IF ~Running(m) THEN m
    ELSE IF ~Valid(m, a) THEN Die(m, "dangling")
    ELSE
        LET new_count == (m.heap[a].ref_count + 1) % (UsizeMax + 1) IN
        Emit([m EXCEPT !.heap[a].ref_count = new_count, !.ret.handle = a],
             Ev("inc", a, m.heap[a].value, new_count))

\* <Phoenix as Clone>::clone; the new handle is m.ret.handle.  The count is
\* written before the overflow check; debug_assert!(count > 0) fails on a
\* count of 0.
PhoenixClone(m, a) ==
    IF ~Running(m) THEN m
    ELSE IF ~Valid(m, a) THEN Die(m, "dangling")
    ELSE
        LET count == m.heap[a].ref_count IN
        IF count = 0 THEN Die(m, "assert")
        ELSE
            LET new_count == (count + 1) % (UsizeMax + 1)
                m1 == Emit([m EXCEPT !.heap[a].ref_count = new_count],
                           Ev("inc", a, m.heap[a].value, new_count))
            IN  IF new_count = 0
                THEN Emit(Die(m1, "abort"), Ev("abort", a, m.heap[a].value, new_count))
                ELSE [m1 EXCEPT !.ret.handle = a]

\* Mutant of CloneRaw: the handle on raw is not a ManuallyDrop, it is
\* dropped when clone_raw returns.
CloneRawDropsTemp(m, a) ==
    LET m1 == PhoenixClone(m, a) IN
    [PhoenixDrop(m1, a) EXCEPT !.ret = m1.ret]

\* Mutant of CloneRaw: the handle on raw is returned without clone().
CloneRawNoRetain(m, a) ==
    IF ~Running(m) THEN m ELSE [m EXCEPT !.ret.handle = a]

\* Phoenix::clone_raw: a ManuallyDrop handle on raw, cloned, never dropped.
CloneRaw(m, a) == PhoenixClone(m, a)

\* <Phoenix as Deref>::deref, as the closure of a `with` that reads the value.
ReadValue(m, a) ==
    IF ~Running(m) THEN m
    ELSE IF ~Valid(m, a) THEN Die(m, "dangling")
    ELSE Emit([m EXCEPT !.ret.value = m.heap[a].value],
              Ev("read", a, m.heap[a].value, m.heap[a].ref_count))

\* A closure that panics: the call unwinds from here, running the drop of
\* every live local and temporary of the frames it leaves.
Panic(m, a) ==
    IF ~Running(m) THEN m
    ELSE IF ~Valid(m, a) THEN Die(m, "dangling")
    ELSE Emit([m EXCEPT !.ret.panicked = TRUE],
              Ev("panic", a, m.heap[a].value, m.heap[a].ref_count))

\* The body of closure f on the value at address a: "clone_raw" is the
\* closure of PhoenixKey::handle, "read" one that reads the value, "panic"
\* one that panics.
Apply(m, a, f) ==
    IF f = "clone_raw" THEN CloneRaw(m, a)
    ELSE IF f = "panic" THEN Panic(m, a)
    ELSE ReadValue(m, a)

\* f(x): the call of the closure on the value at address a.
Invoke(m, a, f) ==
    IF ~Running(m) THEN m
    ELSE Apply(Emit(m, Ev("closure", a, IF Valid(m, a) THEN m.heap[a].value ELSE 0,
                                    IF Valid(m, a) THEN m.heap[a].ref_count ELSE 0)),
               a, f)

\* The cell with value v was made by o.
Origin(m, v, o) == [m EXCEPT !.hist[v].origin = o]

\* Mutant of RunOnDefault: the temporary handle is forgotten, not dropped.
RunOnDefaultLeak(m, a, t, f) ==
    Invoke(Origin(PhoenixNew(m, a, t), m.next_id, "default"), a, f)

\* Mutant of RunOnDefault: the temporary handle is dropped before f runs.
RunOnDefaultDropFirst(m, a, t, f) ==
    LET m1 == Origin(PhoenixNew(m, a, t), m.next_id, "default")
        m2 == PhoenixDrop(m1, a)
    IN  Invoke(m2, a, f)

\* Mutant of RunOnDefault: the handle is released by a call after f, not
\* by its destructor, so an unwinding f skips the release.
RunOnDefaultManualRelease(m, a, t, f) ==
    LET m1 == Origin(PhoenixNew(m, a, t), m.next_id, "default")
        m2 == Invoke(m1, a, f)
    IN  IF m2.ret.panicked THEN m2 ELSE PhoenixDrop(m2, a)

\* run_on_default: f(&*Phoenix::new()); the temporary handle is dropped
\* after f returned, or by the unwinding when f panicked.
RunOnDefault(m, a, t, f) ==
    LET m1 == Origin(PhoenixNew(m, a, t), m.next_id, "default")
        m2 == Invoke(m1, a, f)
    IN  PhoenixDrop(m2, a)

\* Mutant of TryWith: the lazy initialisation does not mark the
\* thread_local as initialised.
TryWithForgetsInit(m, a, t) ==
    IF m.slot[t].state = "Absent"
    THEN [Origin(PhoenixNew(m, a, t), m.next_id, "slot") EXCEPT !.slot[t].raw = a]
    ELSE m

\* Mutant of TryWith: __SLOW is a static shared by all threads, not a
\* thread_local.
TryWithShared(m, a, t) ==
    IF m.slot[t].state = "Absent"
    THEN IF \E u \in Threads : m.slot[u].state = "Alive"
         THEN [m EXCEPT !.slot[t] =
                   m.slot[CHOOSE u \in Threads : m.slot[u].state = "Alive"]]
         ELSE [Origin(PhoenixNew(m, a, t), m.next_id, "slot") EXCEPT
                   !.slot[t] = [state |-> "Alive", raw |-> a]]
    ELSE m

\* LocalKey::try_with on __SLOW: lazily runs Phoenix::new() on the first
\* access of the thread; an error once the thread_local is destroyed.
TryWith(m, a, t) ==
    IF m.slot[t].state = "Absent"
    THEN [Origin(PhoenixNew(m, a, t), m.next_id, "slot") EXCEPT
                   !.slot[t] = [state |-> "Alive", raw |-> a]]
    ELSE m

\* Mutant of KeyWith: LocalKey::with in place of try_with, which panics
\* once the thread_local is destroyed.
KeyWithNoFallback(m, a, t, f) ==
    IF m.slot[t].state = "TornDown"
    THEN Die(m, "access_error")
    ELSE LET m1 == TryWith(m, a, t)
         IN  Invoke(m1, m1.slot[t].raw, f)

\* Mutant of KeyWith: the pointer taken out of the slot is handled as an
\* owned handle and dropped before the closure runs.
KeyWithDropsBorrow(m, a, t, f) ==
    IF m.slot[t].state = "TornDown" THEN RunOnDefault(m, a, t, f)
    ELSE LET m1 == TryWith(m, a, t)
             m2 == PhoenixDrop(m1, m1.slot[t].raw)
         IN  Invoke(m2, m1.slot[t].raw, f)

\* Mutant of KeyWith: an access after the teardown initialises the slot
\* again.
KeyWithResurrects(m, a, t, f) ==
    LET m0 == IF m.slot[t].state = "TornDown"
              THEN [m EXCEPT !.slot[t].state = "Absent"] ELSE m
        m1 == TryWith(m0, a, t)
    IN  Invoke(m1, m1.slot[t].raw, f)

\* PhoenixKey::with
KeyWith(m, a, t, f) ==
    IF m.slot[t].state = "TornDown"
    THEN RunOnDefault(m, a, t, f)
    ELSE LET m1 == TryWith(m, a, t)
         IN  Invoke(m1, m1.slot[t].raw, f)

\* PhoenixKey::handle
KeyHandle(m, a, t) == KeyWith(m, a, t, "clone_raw")

\* Mutant of DestroySlot: the destructor of __SLOW is not run.
DestroySlotNoDrop(m, t) ==
    [m EXCEPT !.slot[t] = [state |-> "TornDown", raw |-> NoAddr]]

\* Mutant of DestroySlot: the destructor releases the cell without looking
\* at the ref_count.
DestroySlotDeallocs(m, t) ==
    Dealloc([m EXCEPT !.slot[t] = [state |-> "TornDown", raw |-> NoAddr]],
            m.slot[t].raw)

\* The platform destroys the thread's __SLOW: the handle in it is dropped.
DestroySlot(m, t) ==
    PhoenixDrop([m EXCEPT !.slot[t] = [state |-> "TornDown", raw |-> NoAddr]],
                m.slot[t].raw)

\* ------------------------------------------------------------ the actions

Commit(m) ==
    /\ heap' = m.heap
    /\ slot' = m.slot
    /\ THREAD_LIST' = m.list
    /\ THREAD_ID' = m.next_id
    /\ fault' = m.fault
    /\ ret' = m.ret
    /\ log' = m.log
    /\ hist' = m.hist

Call(op, t) == [op |-> op, t |-> t, pre |-> slot[t].state]

FreeAddrs == {a \in Addrs : ~heap[a].live}

\* Box::new: the allocator is first-fit, so that a released address is
\* reused by the next allocation.
BoxNew == {a \in FreeAddrs : \A b \in FreeAddrs : a <= b}

\* The address Phoenix::new gets in a call of with/handle by thread t:
\* none is needed while the slot is alive.
AllocChoices(t) ==
    IF slot[t].state = "Alive" THEN {NoAddr}
    ELSE IF THREAD_ID < MaxCells THEN BoxNew ELSE {}

Give(t, a) == held' = [held EXCEPT ![t][a] = @ + 1]

Take(t, a) == held' = [held EXCEPT ![t][a] = @ - 1]

\* THREAD.with(|x| x.id)
With(t) ==
    /\ fault = "none"
    /\ \E a \in AllocChoices(t) :
         LET m == KeyWith(Machine, a, t, "read") IN
         /\ Commit(m)
         /\ last' = Call("with", t)
    /\ UNCHANGED <<held, leaked>>

\* THREAD.with(|_| panic!())
WithPanic(t) ==
    /\ fault = "none"
    /\ \E a \in AllocChoices(t) :
         LET m == KeyWith(Machine, a, t, "panic") IN
         /\ Commit(m)
         /\ last' = Call("with_panic", t)
    /\ UNCHANGED <<held, leaked>>

\* let h = THREAD.handle()
Handle(t) ==
    /\ fault = "none"
    /\ \E a \in AllocChoices(t) :
         LET m == KeyHandle(Machine, a, t) IN
         /\ Commit(m)
         /\ last' = Call("handle", t)
         /\ IF m.ret.handle # NoAddr THEN Give(t, m.ret.handle) ELSE UNCHANGED held
    /\ UNCHANGED leaked

\* let h2 = h.clone()
Clone(t, a) ==
    /\ fault = "none"
    /\ held[t][a] > 0
    /\ LET m == PhoenixClone(Machine, a) IN
         /\ Commit(m)
         /\ last' = Call("clone", t)
         /\ IF m.ret.handle # NoAddr THEN Give(t, m.ret.handle) ELSE UNCHANGED held
    /\ UNCHANGED leaked

\* *h: the dereference of a handle the thread owns.
Deref(t, a) ==
    /\ fault = "none"
    /\ held[t][a] > 0
    /\ LET m == ReadValue(Machine, a) IN
         /\ Commit(m)
         /\ last' = Call("deref", t)
    /\ UNCHANGED <<held, leaked>>

\* drop(h)
Drop(t, a) ==
    /\ fault = "none"
    /\ held[t][a] > 0
    /\ LET m == PhoenixDrop(Machine, a) IN
         /\ Commit(m)
         /\ last' = Call("drop", t)
    /\ Take(t, a)
    /\ UNCHANGED leaked

\* mem::forget(h)
Forget(t, a) ==
    /\ fault = "none"
    /\ held[t][a] > 0
    /\ Sum(leaked, Addrs) < MaxLeaks
    /\ Commit(Machine)
    /\ last' = Call("forget", t)
    /\ Take(t, a)
    /\ leaked' = [leaked EXCEPT ![a] = @ + 1]

\* Thread exit: the platform runs the destructor of the thread's __SLOW.
Teardown(t) ==
    /\ fault = "none"
    /\ slot[t].state = "Alive"
    /\ LET m == DestroySlot(Machine, t) IN
         /\ Commit(m)
         /\ last' = Call("teardown", t)
    /\ UNCHANGED <<held, leaked>>

Init ==
    /\ heap = [a \in Addrs |-> FreeCell]
    /\ slot = [t \in Threads |-> [state |-> "Absent", raw |-> NoAddr]]
    /\ held = [t \in Threads |-> [a \in Addrs |-> 0]]
    /\ leaked = [a \in Addrs |-> 0]
    /\ THREAD_LIST = <<>>
    /\ THREAD_ID = 0
    /\ fault = "none"
    /\ ret = NoRet
    /\ last = [op |-> "init", t |-> NoThread, pre |-> "Absent"]
    /\ log = <<>>
    /\ hist = [v \in Ids |-> [subs |-> 0, unsubs |-> 0, frees |-> 0,
                              thread |-> NoThread, addr |-> NoAddr,
                              origin |-> "none"]]

Next ==
    \/ \E t \in Threads : With(t)
    \/ \E t \in Threads : WithPanic(t)
    \/ \E t \in Threads : Handle(t)
    \/ \E t \in Threads, a \in Addrs : Clone(t, a)
    \/ \E t \in Threads, a \in Addrs : Deref(t, a)
    \/ \E t \in Threads, a \in Addrs : Drop(t, a)
    \/ \E t \in Threads, a \in Addrs : Forget(t, a)
    \/ \E t \in Threads : Teardown(t)

Spec == Init /\ [][Next]_vars

\* The program that leaks no handle: it never calls mem::forget.
LiveNext ==
    \/ \E t \in Threads : With(t)
    \/ \E t \in Threads : WithPanic(t)
    \/ \E t \in Threads : Handle(t)
    \/ \E t \in Threads, a \in Addrs : Clone(t, a)
    \/ \E t \in Threads, a \in Addrs : Deref(t, a)
    \/ \E t \in Threads, a \in Addrs : Drop(t, a)
    \/ \E t \in Threads : Teardown(t)

\* An owned handle is a value with a destructor: the thread that owns it
\* drops it when its scope ends.  A thread whose slot is alive exits, and
\* the platform then runs the destructor of its __SLOW.
Fairness ==
    /\ \A t \in Threads, a \in Addrs : WF_vars(Drop(t, a))
    /\ \A t \in Threads : WF_vars(Teardown(t))

LiveSpec == Init /\ [][LiveNext]_vars /\ Fairness

\* ------------------------------------------------------------ properties

\* The handles of thread t on address a: the one in its slot and those it owns.
SlotRefs(t, a) == IF slot[t].state = "Alive" /\ slot[t].raw = a THEN 1 ELSE 0

ThreadRefs(t, a) == SlotRefs(t, a) + held[t][a]

\* The undropped handles on address a, the leaked ones included.
Handles(a) ==
    Sum([t \in Threads |-> ThreadRefs(t, a)], Threads) + leaked[a]

Idx(s) == 1..Len(s)

Kinds(s) == [i \in Idx(s) |-> s[i].k]

\* C1: while the process runs, the ref_count of every allocated cell equals
\* the number of undropped handles on it (slot handle, owned handles, leaked
\* handles), and no handle points to released memory.
C1_RefCountIsHandleCount ==
    fault = "none" =>
        \A a \in Addrs :
            IF heap[a].live
            THEN heap[a].ref_count = Handles(a)
            ELSE Handles(a) = 0

\* C1 witness: after a drop, a cell is counted twice: once for the slot of
\* its thread and once for a leaked handle.
C1_Witness ==
    /\ last.op = "drop"
    /\ fault = "none"
    /\ \E a \in Addrs, t \in Threads :
         /\ heap[a].live
         /\ leaked[a] = 1
         /\ SlotRefs(t, a) = 1
         /\ heap[a].ref_count = 2

\* C2: unsubscribe runs at most once per cell; in the events of every call,
\* unsubscribe directly follows the decrement of that cell's ref_count to 0
\* and no other decrement, and the release of the memory directly follows
\* the unsubscribe.
C2_UnsubscribeOnceAtZero ==
    /\ \A v \in Ids : hist[v].unsubs <= 1 /\ hist[v].frees <= hist[v].unsubs
    /\ \A i \in Idx(log) :
         /\ log[i].k = "unsubscribe" =>
               /\ i > 1
               /\ log[i - 1].k = "dec"
               /\ log[i - 1].n = 0
               /\ log[i - 1].a = log[i].a
               /\ log[i - 1].v = log[i].v
         /\ log[i].k = "dec" =>
               IF log[i].n = 0
               THEN /\ i < Len(log)
                    /\ log[i + 1].k = "unsubscribe"
                    /\ log[i + 1].a = log[i].a
               ELSE i = Len(log) \/ log[i + 1].k # "unsubscribe"
         /\ log[i].k = "free" =>
               /\ i > 1
               /\ log[i - 1].k = "unsubscribe"
               /\ log[i - 1].a = log[i].a
               /\ log[i - 1].v = log[i].v
               /\ ~heap[log[i].a].live \/ heap[log[i].a].value # log[i].v

\* C2 witness: the drop of the last handle of a cell whose slot is gone ran
\* unsubscribe and released the cell, after an earlier drop on the same
\* address that did not.
C2_Witness ==
    /\ last.op = "drop"
    /\ Kinds(log) = <<"dec", "unsubscribe", "free">>
    /\ slot[last.t].state = "TornDown"
    /\ hist[log[1].v].unsubs = 1

\* The events of the last call all concern the cell (a, v).
LogOn(a, v) == \A i \in Idx(log) : log[i].a = a /\ log[i].v = v

\* C3: a call of with or handle returns a result whatever the state of the
\* slot was: with returns what the closure read from an allocated cell,
\* handle returns a handle on an allocated cell.  No call of any operation
\* ends in an error, a panic or a failed assertion; the only call that does
\* not return is the clone that overflows the ref_count, which aborts.
C3_WithHandleTotal ==
    /\ fault \in {"none", "abort"}
    /\ fault = "abort" =>
         /\ last.op \in {"handle", "clone"}
         /\ log[Len(log)].k = "abort"
         /\ Handles(log[Len(log)].a) = UsizeMax
         /\ ret = NoRet
    /\ (fault = "none" /\ last.op = "with") =>
         /\ ret.value \in Ids
         /\ \E i \in Idx(log) : log[i].k = "read" /\ log[i].v = ret.value
    /\ (fault = "none" /\ last.op = "handle") =>
         /\ ret.handle \in Addrs
         /\ heap[ret.handle].live
         /\ held[last.t][ret.handle] > 0

\* C3 witness: handle returned a handle on a thread whose slot was torn
\* down, while the slot of the other thread was alive.
C3_Witness ==
    /\ last.op = "handle"
    /\ last.pre = "TornDown"
    /\ fault = "none"
    /\ heap[ret.handle].live
    /\ \E t \in Threads : slot[t].state = "Alive"

\* C4: with on a torn down slot creates one new cell and runs, in this
\* order: allocation, subscribe, the closure on that cell, the decrement to
\* 0, unsubscribe, release.  The cell is gone when the call has returned.
C4_FallbackWithBrackets ==
    (last.op = "with" /\ last.pre = "TornDown") =>
        /\ Kinds(log) = <<"alloc", "subscribe", "closure", "read",
                           "dec", "unsubscribe", "free">>
        /\ LogOn(log[1].a, THREAD_ID - 1)
        /\ hist[THREAD_ID - 1] =
              [subs |-> 1, unsubs |-> 1, frees |-> 1, thread |-> last.t,
               addr |-> log[1].a, origin |-> "default"]
        /\ ~heap[log[1].a].live
        /\ Handles(log[1].a) = 0
        /\ ret.value = THREAD_ID - 1
        /\ slot[last.t].state = "TornDown"

\* C4 witness: with ran on a torn down slot while the old cell of the slot
\* was still kept alive by a handle.
C4_Witness ==
    /\ last.op = "with"
    /\ last.pre = "TornDown"
    /\ \E a \in Addrs : heap[a].live /\ held[last.t][a] > 0

\* C5: handle on a torn down slot returns a handle on a new cell whose
\* ref_count is 1 on return and was never 0 during the call (allocation at
\* 1, increment to 2, decrement to 1); unsubscribe has not run on any cell
\* that a thread still owns a handle on.
C5_FallbackHandleKeepsCell ==
    /\ (last.op = "handle" /\ last.pre = "TornDown") =>
         /\ fault = "none"
         /\ Kinds(log) = <<"alloc", "subscribe", "closure", "inc", "dec">>
         /\ LogOn(ret.handle, THREAD_ID - 1)
         /\ \A i \in Idx(log) : log[i].n >= 1
         /\ log[4].n = 2
         /\ heap[ret.handle] =
               [live |-> TRUE, value |-> THREAD_ID - 1, ref_count |-> 1]
         /\ Handles(ret.handle) = 1
         /\ held[last.t][ret.handle] = 1
         /\ hist[THREAD_ID - 1].unsubs = 0
    /\ \A a \in Addrs, t \in Threads :
         held[t][a] > 0 =>
             /\ heap[a].live
             /\ hist[heap[a].value].unsubs = 0
             /\ hist[heap[a].value].frees = 0

\* C5 witness: a cell made by handle on a torn down slot is still allocated
\* after the handle was cloned and one of the two was dropped.
C5_Witness ==
    /\ last.op = "drop"
    /\ slot[last.t].state = "TornDown"
    /\ \E a \in Addrs :
         /\ log = <<Ev("dec", a, heap[a].value, 1)>>
         /\ held[last.t][a] = 1
         /\ heap[a].live
         /\ heap[a].ref_count = 1
         /\ heap[a].value > 0
         /\ hist[heap[a].value].unsubs = 0
         /\ hist[0].thread = last.t

Count(s, k) == Cardinality({i \in Idx(s) : s[i].k = k})

IsAccess(l) == l.op \in {"with", "handle"}

\* What a step that is a call of with or handle by t does to a slot that
\* was absent: one cell is made, subscribe runs once, the slot holds it.
FirstAccess(t) ==
    LET a == slot'[t].raw IN
    /\ slot'[t].state = "Alive"
    /\ a \in Addrs
    /\ ~heap[a].live
    /\ heap'[a].live
    /\ heap'[a].value = THREAD_ID
    /\ THREAD_ID' = THREAD_ID + 1
    /\ Count(log', "alloc") = 1
    /\ Count(log', "subscribe") = 1
    /\ hist'[THREAD_ID].subs = 1
    /\ \E i \in Idx(log') : log'[i] = Ev("closure", a, THREAD_ID, 1)

\* What such a step does to a slot that was alive: no cell is made, no
\* hook runs, the closure gets the cell of the slot.
LaterAccess(t) ==
    LET a == slot[t].raw IN
    /\ slot'[t] = slot[t]
    /\ THREAD_ID' = THREAD_ID
    /\ hist' = hist
    /\ THREAD_LIST' = THREAD_LIST
    /\ Count(log', "alloc") = 0
    /\ Count(log', "subscribe") = 0
    /\ heap'[a].live
    /\ heap'[a].value = heap[a].value
    /\ log'[1] = Ev("closure", a, heap[a].value, heap[a].ref_count)
    /\ (last'.op = "with") => ret'.value = heap[a].value
    /\ (last'.op = "handle" /\ fault' = "none") => ret'.handle = a

\* C6: the first with/handle of a thread makes exactly one cell and runs
\* subscribe exactly once; every with/handle while the slot is alive gets
\* that cell of the slot and makes no cell.
C6_OneCellPerThread ==
    [][\A t \in Threads :
         (IsAccess(last') /\ last'.t = t) =>
             /\ slot[t].state = "Absent" => FirstAccess(t)
             /\ slot[t].state = "Alive" => LaterAccess(t)]_vars

\* C6 witness: a second handle() of a thread returned the cell of its slot,
\* the only cell ever made on that thread.
C6_Witness ==
    /\ last.op = "handle"
    /\ last.pre = "Alive"
    /\ fault = "none"
    /\ ret.handle = slot[last.t].raw
    /\ held[last.t][ret.handle] = 1
    /\ Cardinality({v \in Ids : hist[v].thread = last.t}) = 1

\* C7: no address is referenced by the slots or handles of two threads;
\* the cells of two alive slots differ; the ref_count of a cell counts the
\* handles of one thread only, the one that made it; and a call of a
\* thread touches only cells that thread made.
C7_ThreadsHaveOwnCells ==
    /\ \A a \in Addrs :
         Cardinality({t \in Threads : ThreadRefs(t, a) > 0}) <= 1
    /\ \A t, u \in Threads :
         (t # u /\ slot[t].state = "Alive" /\ slot[u].state = "Alive") =>
             /\ slot[t].raw # slot[u].raw
             /\ heap[slot[t].raw].value # heap[slot[u].raw].value
    /\ \A a \in Addrs, t \in Threads :
         (ThreadRefs(t, a) > 0 /\ fault = "none") =>
             /\ heap[a].live
             /\ hist[heap[a].value].thread = t
             /\ hist[heap[a].value].subs = 1
             /\ hist[heap[a].value].unsubs = 0
             /\ heap[a].ref_count = ThreadRefs(t, a) + leaked[a]
    /\ \A i \in Idx(log) : hist[log[i].v].thread = last.t

\* C7 witness: both threads own a handle, each on the cell of its own slot.
C7_Witness ==
    /\ \A t \in Threads :
         /\ slot[t].state = "Alive"
         /\ held[t][slot[t].raw] = 1
    /\ slot["main"].raw # slot["spawned"].raw

\* The address a step clones a handle on: the operand of clone, or the
\* cell of the alive slot in handle.
CloneStep(t, a) ==
    /\ last'.t = t
    /\ \/ last'.op = "clone" /\ log'[1].a = a
       \/ last'.op = "handle" /\ slot[t].state = "Alive" /\ slot[t].raw = a

\* C8: a clone on a cell whose ref_count is UsizeMax aborts the process and
\* returns no handle; a clone below UsizeMax raises the count by exactly 1
\* and returns a handle; no cell of the running process has ref_count 0.
C8_OverflowAborts ==
    /\ [](fault = "none" => \A a \in Addrs : heap[a].live => heap[a].ref_count >= 1)
    /\ [][\A t \in Threads, a \in Addrs :
            CloneStep(t, a) =>
                IF heap[a].ref_count = UsizeMax
                THEN /\ fault' = "abort"
                     /\ held' = held
                     /\ ret' = NoRet
                ELSE /\ fault' = "none"
                     /\ heap'[a].ref_count = heap[a].ref_count + 1
                     /\ held' = [held EXCEPT ![t][a] = @ + 1]
                     /\ ret'.handle = a]_vars

\* C8 witness: the process aborted in a clone of a handle on a cell that
\* had UsizeMax handles, some of them leaked.
C8_Witness ==
    /\ fault = "abort"
    /\ last.op = "clone"
    /\ \E a \in Addrs :
         /\ Handles(a) = UsizeMax
         /\ leaked[a] > 0
         /\ held[last.t][a] > 0

Range(s) == {s[i] : i \in Idx(s)}

\* C9: between calls, THREAD_LIST holds exactly the addresses of the
\* allocated cells, each once; the values subscribe ran on and unsubscribe
\* did not are those of the allocated cells; unsubscribe finds its address
\* in the list, and it is the address subscribe ran on for that value.
C9_RegistryIsExact ==
    /\ Range(THREAD_LIST) = {a \in Addrs : heap[a].live}
    /\ Len(THREAD_LIST) = Cardinality(Range(THREAD_LIST))
    /\ {v \in Ids : hist[v].subs > hist[v].unsubs} =
           {heap[a].value : a \in {b \in Addrs : heap[b].live}}
    /\ \A v \in Ids : hist[v].subs <= 1 /\ hist[v].unsubs <= hist[v].subs
    /\ \A a \in Addrs : heap[a].live => hist[heap[a].value].addr = a
    /\ fault # "unwrap"
    /\ \A i \in Idx(log) :
         log[i].k = "unsubscribe" =>
             /\ hist[log[i].v].addr = log[i].a
             /\ hist[log[i].v].subs = 1
             /\ hist[log[i].v].unsubs = 1

\* C9 witness: a released cell and an allocated cell had the same address,
\* and the list holds that address and the one of a second allocated cell.
C9_Witness ==
    /\ Len(THREAD_LIST) = 2
    /\ \E v \in Ids, a \in Addrs :
         /\ hist[v].unsubs = 1
         /\ heap[a].live
         /\ heap[a].value # v
         /\ hist[v].addr = a

\* C10: the teardown of a thread whose slot is alive and whose cell has no
\* other handle runs unsubscribe and releases the cell, so the number of
\* subscribed cells drops by 1, back to what it was before the first access
\* of the thread raised it by 1; every other cell, every other slot and
\* all owned handles stay as they were, the cells still allocated.
C10_TeardownRestoresCount ==
    [][\A t \in Threads :
         /\ (last'.op = "teardown" /\ last'.t = t
               /\ held[t][slot[t].raw] = 0 /\ leaked[slot[t].raw] = 0) =>
                /\ Kinds(log') = <<"dec", "unsubscribe", "free">>
                /\ \A i \in Idx(log') :
                      /\ log'[i].a = slot[t].raw
                      /\ log'[i].v = heap[slot[t].raw].value
                /\ ~heap'[slot[t].raw].live
                /\ slot'[t] = [state |-> "TornDown", raw |-> NoAddr]
                /\ Len(THREAD_LIST') = Len(THREAD_LIST) - 1
                /\ \A b \in Addrs \ {slot[t].raw} : heap'[b] = heap[b]
                /\ \A u \in Threads \ {t} : slot'[u] = slot[u]
                /\ held' = held
                /\ \A u \in Threads, b \in Addrs : held[u][b] > 0 => heap'[b].live
         /\ (IsAccess(last') /\ last'.t = t /\ slot[t].state = "Absent") =>
                /\ Len(THREAD_LIST') = Len(THREAD_LIST) + 1
                /\ \A b \in Addrs \ {slot'[t].raw} : heap'[b] = heap[b]
                /\ \A u \in Threads \ {t} : slot'[u] = slot[u]]_vars

\* C10 witness: main owns one handle on its cell (count 1), the spawned
\* thread made a cell with `with` (count 2) and was torn down (count 1);
\* the cell of main still has its value 0 and ref_count 2.
C10_Witness ==
    /\ last = [op |-> "teardown", t |-> "spawned", pre |-> "Alive"]
    /\ THREAD_ID = 2
    /\ Len(THREAD_LIST) = 1
    /\ hist[1] = [subs |-> 1, unsubs |-> 1, frees |-> 1, thread |-> "spawned",
                   addr |-> 2, origin |-> "slot"]
    /\ slot["main"] = [state |-> "Alive", raw |-> 1]
    /\ held["main"][1] = 1
    /\ heap[1] = [live |-> TRUE, value |-> 0, ref_count |-> 2]

\* The values of the cells the slot of thread t has held.
SlotCells(t) == {v \in Ids : hist[v].thread = t /\ hist[v].origin = "slot"}

\* The cell with value v is still allocated, at the address it was made at.
Allocated(v) == heap[hist[v].addr].live /\ heap[hist[v].addr].value = v

\* C11 as claimed: whenever the slot of a thread is torn down, unsubscribe
\* has run on the cell the slot held.
C11_TornDownUnsubscribed ==
    \A t \in Threads :
        slot[t].state = "TornDown" =>
            \A v \in SlotCells(t) : hist[v].unsubs = 1

\* C11 amended: whenever the slot of a thread is torn down, the handle of
\* the slot has been released, and unsubscribe has run on the cell the slot
\* held exactly when no other handle on the cell is left; while one is
\* left, owned or leaked, the cell is allocated and counts those handles.
C11_TornDownReleasedSlotHandle ==
    \A t \in Threads :
        (slot[t].state = "TornDown" /\ fault = "none") =>
            /\ Cardinality(SlotCells(t)) = 1
            /\ \A v \in SlotCells(t) :
                 LET a == hist[v].addr IN
                 /\ hist[v].subs = 1
                 /\ IF Allocated(v)
                    THEN /\ hist[v].unsubs = 0
                         /\ heap[a].ref_count = held[t][a] + leaked[a]
                         /\ heap[a].ref_count >= 1
                    ELSE /\ hist[v].unsubs = 1
                         /\ hist[v].frees = 1

\* C11 witness: a slot was torn down while its thread owned a handle on
\* the cell of the slot; unsubscribe has not run on that cell.
C11_Witness ==
    /\ last.op = "teardown"
    /\ slot[last.t].state = "TornDown"
    /\ \E v \in SlotCells(last.t) :
         /\ Allocated(v)
         /\ hist[v].unsubs = 0
         /\ held[last.t][hist[v].addr] = 1

\* C12: no call ends in a failed debug_assert of clone or drop (a count of
\* 0 read) or in the use of released memory; while the process runs, every
\* address a handle points to holds an allocated cell with ref_count >= 1,
\* every decrement and increment was of a count above 0, and no cell is
\* released twice.
C12_AssertionsNeverFail ==
    /\ fault \notin {"assert", "dangling"}
    /\ fault = "none" =>
         \A a \in Addrs :
             Handles(a) > 0 => (heap[a].live /\ heap[a].ref_count >= 1)
    /\ \A i \in Idx(log) :
         /\ log[i].k = "dec" => log[i].n >= 0
         /\ log[i].k = "inc" => (log[i].n >= 2 \/ fault = "abort")
    /\ \A v \in Ids : hist[v].frees <= 1 /\ hist[v].frees <= hist[v].subs

\* C12 witness: a clone read a count of 1 and made it 2, after a cell of
\* the other thread was released.
C12_Witness ==
    /\ last.op = "clone"
    /\ fault = "none"
    /\ log[1].k = "inc"
    /\ log[1].n = 2
    /\ held[last.t][log[1].a] = 2
    /\ \E v \in Ids : hist[v].frees = 1 /\ hist[v].thread # last.t

\* No hook ran in the call with events s.
NoHook(s) == Count(s, "subscribe") = 0 /\ Count(s, "unsubscribe") = 0

\* C13: on an alive slot, with changes no cell, no slot, no handle and runs
\* no hook; handle raises the ref_count of the cell of the slot by exactly
\* 1, returns one handle on it and changes nothing else (nothing is
\* decremented: the handle built in clone_raw is not released).  At
\* ref_count = UsizeMax handle aborts instead.
C13_AliveAccessFrame ==
    [][\A t \in Threads :
         (IsAccess(last') /\ last'.t = t /\ slot[t].state = "Alive") =>
             LET a == slot[t].raw IN
             /\ slot' = slot
             /\ THREAD_LIST' = THREAD_LIST
             /\ THREAD_ID' = THREAD_ID
             /\ hist' = hist
             /\ leaked' = leaked
             /\ NoHook(log')
             /\ Count(log', "alloc") = 0
             /\ Count(log', "free") = 0
             /\ Count(log', "dec") = 0
             /\ last'.op = "with" =>
                   /\ heap' = heap
                   /\ held' = held
                   /\ fault' = "none"
                   /\ Count(log', "inc") = 0
             /\ last'.op = "handle" =>
                   IF heap[a].ref_count < UsizeMax
                   THEN /\ heap' = [heap EXCEPT ![a].ref_count = @ + 1]
                        /\ held' = [held EXCEPT ![t][a] = @ + 1]
                        /\ fault' = "none"
                        /\ Kinds(log') = <<"closure", "inc">>
                   ELSE /\ fault' = "abort"
                        /\ held' = held]_vars

\* C13 witness: handle on an alive slot raised the ref_count of its cell
\* from 1 to 2 while the other thread's cell stayed at 1.
C13_Witness ==
    /\ last = [op |-> "handle", t |-> "spawned", pre |-> "Alive"]
    /\ fault = "none"
    /\ log = <<Ev("closure", ret.handle, heap[ret.handle].value, 1),
               Ev("inc", ret.handle, heap[ret.handle].value, 2)>>
    /\ slot["main"].state = "Alive"
    /\ heap[slot["main"].raw].ref_count = 1

\* C14: when the closure of a with on a torn down slot panics, the handle
\* of the new cell is dropped by the unwinding: the events are allocation,
\* subscribe, closure, panic, decrement to 0, unsubscribe, release, each
\* once and on that cell, and the cell is not allocated afterwards.
C14_UnwindReleasesFallbackCell ==
    (last.op = "with_panic" /\ last.pre = "TornDown") =>
        /\ ret.panicked
        /\ fault = "none"
        /\ Kinds(log) = <<"alloc", "subscribe", "closure", "panic",
                           "dec", "unsubscribe", "free">>
        /\ LogOn(log[1].a, THREAD_ID - 1)
        /\ hist[THREAD_ID - 1].subs = 1
        /\ hist[THREAD_ID - 1].unsubs = 1
        /\ hist[THREAD_ID - 1].frees = 1
        /\ ~heap[log[1].a].live
        /\ log[1].a \notin Range(THREAD_LIST)
        /\ \A b \in Addrs : heap[b].live => Handles(b) > 0

\* C14 witness: a with whose closure panicked ran on a torn down slot and
\* left no allocated cell at all.
C14_Witness ==
    /\ last.op = "with_panic"
    /\ last.pre = "TornDown"
    /\ ret.panicked
    /\ hist[THREAD_ID - 1].frees = 1
    /\ \A b \in Addrs : ~heap[b].live

\* A call of with or handle, its closure returning or panicking.
IsAnyAccess(l) == l.op \in {"with", "with_panic", "handle"}

\* C15: a torn down slot stays torn down in every step; every with/handle
\* on its thread makes a cell with a value no cell had before, at an
\* address that held no cell, so it is neither the cell the slot held nor
\* a cell of an earlier access, and the cells allocated before, the old
\* cell of the slot among them, are left as they were.
C15_TornDownIsTerminal ==
    [][\A t \in Threads :
         slot[t].state = "TornDown" =>
             /\ slot'[t] = slot[t]
             /\ (IsAnyAccess(last') /\ last'.t = t) =>
                   LET v == THREAD_ID
                       a == log'[1].a
                   IN  /\ THREAD_ID' = THREAD_ID + 1
                       /\ hist[v].subs = 0
                       /\ hist[v].origin = "none"
                       /\ hist'[v].origin = "default"
                       /\ hist'[v].thread = t
                       /\ v \notin SlotCells(t)'
                       /\ \A w \in Ids \ {v} : hist'[w] = hist[w]
                       /\ log'[1] = Ev("alloc", a, v, 1)
                       /\ log'[3] = Ev("closure", a, v, 1)
                       /\ ~heap[a].live
                       /\ \A b \in Addrs \ {a} : heap'[b] = heap[b]]_vars

\* C15 witness: the second access after the teardown made a third cell
\* while the cell the slot held was still allocated, kept by a handle.
C15_Witness ==
    /\ last.op = "handle"
    /\ last.pre = "TornDown"
    /\ THREAD_ID = 3
    /\ \A v \in Ids : hist[v].thread = last.t
    /\ \E v \in SlotCells(last.t) :
         /\ Allocated(v)
         /\ held[last.t][hist[v].addr] = 1
         /\ hist[v].addr # ret.handle
    /\ heap[ret.handle].value = 2
    /\ hist[1].frees = 1

\* The kinds of event that observe the value of a cell.
Observations == {"closure", "read", "panic"}

\* C16: every observation of a value, by the closure of with or handle or
\* by the dereference of a handle, is on a cell that is allocated, whose
\* subscribe has run and whose unsubscribe has not: either the cell was so
\* before the call or the call made it, and the call has neither
\* unsubscribed nor released it before the observation.  No call ends in a
\* use of released memory.  This holds whatever the state of the slot,
\* after the teardown too.
C16_ObservationsOnLiveCells ==
    [][/\ fault' # "dangling"
       /\ \A i \in Idx(log') :
            log'[i].k \in Observations =>
                LET a == log'[i].a
                    v == log'[i].v
                IN  /\ a \in Addrs
                    /\ v \in Ids
                    /\ \/ /\ heap[a].live
                          /\ heap[a].value = v
                          /\ hist[v].subs = 1
                          /\ hist[v].unsubs = 0
                          /\ hist[v].frees = 0
                          /\ a \in Range(THREAD_LIST)
                       \/ /\ i > 2
                          /\ log'[1] = Ev("alloc", a, v, 1)
                          /\ log'[2] = Ev("subscribe", a, v, 1)
                    /\ log'[i].n >= 1
                    /\ \A j \in 1..(i - 1) :
                         log'[j].a = a =>
                             log'[j].k \notin {"unsubscribe", "free"}]_vars

\* C16 witness: a handle is dereferenced after the teardown of the slot of
\* its thread; the cell is the one the slot held, still allocated and
\* subscribed.
C16_Witness ==
    /\ last.op = "deref"
    /\ last.pre = "TornDown"
    /\ fault = "none"
    /\ Len(log) = 1
    /\ log[1].k = "read"
    /\ log[1].v \in SlotCells(last.t)
    /\ ret.value = log[1].v
    /\ hist[log[1].v].unsubs = 0

\* The kinds of event that use a cell: the call of a closure on it, a
\* read of its value, a clone or a drop of a handle on it.
Uses == {"closure", "read", "panic", "inc", "dec"}

\* C17: in every step, a cell that is made has ref_count 1 and the next
\* default value, and the statement after its allocation is its subscribe,
\* the only one the cell ever gets; nothing in the call uses the cell
\* before.  Every use of a cell in a call is on a cell subscribed before
\* the call or earlier in it.  A call of with or handle makes a cell this
\* way when the slot was absent and when it was torn down.
C17_NewSubscribesOnceBeforeUse ==
    [][/\ \A i \in Idx(log') :
            log'[i].k = "alloc" =>
                LET a == log'[i].a
                    v == log'[i].v
                IN  /\ i = 1
                    /\ log'[1] = Ev("alloc", a, THREAD_ID, 1)
                    /\ Len(log') >= 2
                    /\ log'[2] = Ev("subscribe", a, v, 1)
                    /\ hist[v].subs = 0
                    /\ hist'[v].subs = 1
                    /\ Count(log', "subscribe") = 1
       /\ \A i \in Idx(log') :
            log'[i].k = "subscribe" => i = 2 /\ log'[1].k = "alloc"
       /\ \A i \in Idx(log') :
            log'[i].k \in Uses =>
                \/ hist[log'[i].v].subs = 1
                \/ i > 2 /\ log'[2] = Ev("subscribe", log'[i].a, log'[i].v, 1)
       /\ \A v \in Ids : hist'[v].subs <= 1
       /\ \A t \in Threads :
            (IsAnyAccess(last') /\ last'.t = t /\ slot[t].state # "Alive") =>
                /\ Len(log') >= 3
                /\ log'[1].k = "alloc"
                /\ log'[3].k = "closure"
                /\ hist'[THREAD_ID].origin =
                       (IF slot[t].state = "Absent" THEN "slot" ELSE "default")]_vars

\* C17 witness: a thread whose slot cell was made by the lazy
\* initialisation makes a cell on the fallback path; both were subscribed
\* once, the second before its closure ran.
C17_Witness ==
    /\ IsAnyAccess(last)
    /\ last.pre = "TornDown"
    /\ Len(log) >= 3
    /\ log[1].k = "alloc"
    /\ log[2].k = "subscribe"
    /\ log[3].k = "closure"
    /\ hist[log[1].v].origin = "default"
    /\ hist[log[1].v].subs = 1
    /\ \E v \in SlotCells(last.t) :
         hist[v].origin = "slot" /\ hist[v].subs = 1

\* The last call did not give thread t a new handle.
Quiet(t) == last.t = t => last.op \notin {"clone", "handle"}

\* Every cell made on thread t has been unsubscribed as often as it was
\* subscribed, once, and released; none of them is allocated or listed.
Released(t) ==
    \A v \in Ids :
        (hist[v].thread = t /\ hist[v].subs > 0) =>
            /\ hist[v].subs = 1
            /\ hist[v].unsubs = 1
            /\ hist[v].frees = 1
            /\ ~Allocated(v)

\* C18: in a program that leaks no handle, drops every handle it owns and
\* lets its threads exit, a thread that from some point on takes no new
\* handle reaches a point from which every cell made on it, by the slot or
\* by the fallback, is unsubscribed and released, provided no clone aborts
\* the process.
C18_AllCellsReleased ==
    \A t \in Threads :
        ([](fault = "none") /\ <>[]Quiet(t)) => <>[]Released(t)

\* C18 witness: a thread that made a slot cell and a fallback cell, and
\* owned a handle on each, has been torn down and has dropped them; both
\* cells are unsubscribed and released.
C18_Witness ==
    /\ last.op = "drop"
    /\ slot[last.t].state = "TornDown"
    /\ Released(last.t)
    /\ \A a \in Addrs : held[last.t][a] = 0
    /\ \E v \in Ids : hist[v].thread = last.t /\ hist[v].origin = "slot"
                       /\ hist[v].unsubs = 1
    /\ \E v \in Ids : hist[v].thread = last.t /\ hist[v].origin = "default"
                       /\ hist[v].unsubs = 1
    /\ Len(log) = 3

\* The handles on address a that no slot holds: owned by t, or leaked.
Outstanding(t, a) == held[t][a] + leaked[a]

\* C19: the teardown of a slot whose cell has k >= 1 other undropped
\* handles writes ref_count k over k + 1 and does nothing else: no hook
\* runs, nothing is released, the cell keeps its address and value.  After
\* it, a drop that leaves a handle on the cell only lowers the ref_count, a
\* dereference reads the value, and the drop of the last handle runs
\* unsubscribe once and releases the cell.
C19_HandleOutlivesSlot ==
    [][\A t \in Threads :
         /\ (last'.op = "teardown" /\ last'.t = t
                 /\ Outstanding(t, slot[t].raw) >= 1) =>
               LET a == slot[t].raw
                   v == heap[a].value
                   k == Outstanding(t, a)
               IN  /\ heap[a].ref_count = k + 1
                   /\ heap' = [heap EXCEPT ![a].ref_count = k]
                   /\ log' = <<Ev("dec", a, v, k)>>
                   /\ hist' = hist
                   /\ THREAD_LIST' = THREAD_LIST
                   /\ slot'[t].state = "TornDown"
                   /\ fault' = "none"
         /\ \A v \in SlotCells(t) :
              (slot[t].state = "TornDown" /\ Allocated(v) /\ last'.t = t) =>
                LET a == hist[v].addr
                    k == heap[a].ref_count
                IN  /\ k = Outstanding(t, a)
                    /\ hist[v].unsubs = 0
                    /\ a \in Range(THREAD_LIST)
                    /\ (last'.op = "deref" /\ log'[1].a = a) =>
                          /\ ret'.value = v
                          /\ heap' = heap
                          /\ hist' = hist
                    /\ (last'.op = "drop" /\ log'[1].a = a /\ k > 1) =>
                          /\ heap' = [heap EXCEPT ![a].ref_count = k - 1]
                          /\ log' = <<Ev("dec", a, v, k - 1)>>
                          /\ hist' = hist
                    /\ (last'.op = "drop" /\ log'[1].a = a /\ k = 1
                            /\ held[t][a] = 1) =>
                          /\ Kinds(log') = <<"dec", "unsubscribe", "free">>
                          /\ \A i \in Idx(log') : log'[i].a = a /\ log'[i].v = v
                          /\ hist'[v].unsubs = 1
                          /\ hist'[v].frees = 1
                          /\ ~heap'[a].live
                          /\ a \notin Range(THREAD_LIST')
                    /\ last'.op \notin {"deref", "drop", "clone"} =>
                          /\ heap'[a] = heap[a]
                          /\ hist'[v] = hist[v]]_vars

\* C19 witness: the slot cell of a thread outlived the teardown and was
\* released by the drop of the last handle on it, which ran unsubscribe.
C19_Witness ==
    /\ last.op = "drop"
    /\ last.pre = "TornDown"
    /\ fault = "none"
    /\ Kinds(log) = <<"dec", "unsubscribe", "free">>
    /\ log[1].v \in SlotCells(last.t)
    /\ hist[log[1].v].unsubs = 1
    /\ hist[log[1].v].frees = 1
    /\ ~heap[log[1].a].live

====
